---- MODULE Spec2Model ----
(***************************************************************************)
(* Model of EventManager.py: the Event handler list (a list subclass) and  *)
(* the EventManager registry (a dict subclass) with its global event.      *)
(*                                                                         *)
(* Values are strings.  Event objects are "e1", "e2", ... in allocation    *)
(* order; "f", "g" and the members "o1.a", "o1._p", "o2.keys" are          *)
(* callables that return normally, "stop" raises StopIteration, "boom"     *)
(* raises another exception, "nc" is a value that is not callable (an      *)
(* int), "None" is None.                                                   *)
(***************************************************************************)
EXTENDS Integers, Sequences, FiniteSets, TLC

VARIABLES
    py,            \* major version of the interpreter that runs the program
    steps,         \* number of top-level calls made so far
    nevents,       \* number of Event objects allocated so far
    handlers,      \* Event -> its list contents (the handlers, in order)
    name,          \* Event -> Event.name
    eventmanager,  \* Event -> Event.eventmanager
    dict,          \* EventManager -> its mapping (key -> value)
    last           \* the last top-level call: what was called and what came of it

vars == <<py, steps, nevents, handlers, name, eventmanager, dict, last>>

\* ---------------------------------------------------------------- bounds
MaxSteps == 4       \* top-level calls in a run
MaxDepth == 3       \* nested fire calls before the interpreter gives up

\* ---------------------------------------------------------------- values
None == "None"

\* the managers, in the order they are constructed
Managers == <<"m1">>

ManagerIds == {Managers[i] : i \in 1..Len(Managers)}

\* the Event objects, in allocation order: one per manager and at most one
\* more with every call
EventNames == [i \in 1..(Len(Managers) + MaxSteps) |-> "e" \o ToString(i)]

Ev(i) == EventNames[i]

EventIds == {Ev(i) : i \in DOMAIN EventNames}

Keys == {"got_event", "a"}

\* callables that just return
PlainFns == {"f", "g", "o1.a", "o1._p", "o2.keys"}

\* the arguments fire is called with
Args == {<<"x">>}

\* the interpreters the module runs on
PyVersions == {2, 3}

IsEvent(st, v) == \E i \in 1..st.nevents : v = Ev(i)

\* handlers that change the list of the Event e they are registered on while
\* it is fired: one calls e.remove_handler on itself, one calls
\* e.add_handler("f")
RmSelf(e) == e \o ".rm_self"

AddF(e) == e \o ".add_f"

Mutators == {RmSelf(e) : e \in EventIds} \cup {AddF(e) : e \in EventIds}

\* the Event a mutating handler works on
Target(h) == CHOOSE e \in EventIds : h \in {RmSelf(e), AddF(e)}

\* callable(v): functions are, and an Event is (it defines __call__)
callable(st, v) ==
    v \in PlainFns \cup {"stop", "boom"} \cup Mutators \/ IsEvent(st, v)

\* names found on every EventManager by normal attribute lookup (dict's
\* methods and the class's own), so that __getattr__ is never consulted
ClassAttrs == {"keys", "apply"}

\* the objects handed to apply: dir(o), sorted as dir() sorts
Dir(o) == IF o = "o1" THEN <<"_p", "a", "v">> ELSE <<"keys">>

\* getattr(o, n): o1.v is an attribute that is not callable
GetAttr(o, n) == IF o = "o1" /\ n = "v" THEN "nc" ELSE o \o "." \o n

Objs == {"o1", "o2"}

startswith_(n) == n = "_p"

\* ---------------------------------------------------------------- state
State == [nevents |-> nevents, handlers |-> handlers, name |-> name,
          eventmanager |-> eventmanager, dict |-> dict]

Commit(st) ==
    /\ UNCHANGED py
    /\ steps < MaxSteps
    /\ steps' = steps + 1
    /\ nevents' = st.nevents
    /\ handlers' = st.handlers
    /\ name' = st.name
    /\ eventmanager' = st.eventmanager
    /\ dict' = st.dict

\* what is kept of a call: the operation, the object it was called on, its
\* argument (for fire: the tuple of arguments, for an assignment: the key and
\* the value), its outcome ("ok" or the
\* exception that escaped it) and, for fire, the calls made, in order
Call(op, obj, arg, res, log) ==
    [op |-> op, obj |-> obj, arg |-> arg, res |-> res, log |-> log]

\* ---------------------------------------------------------------- Event
\* Event(): a new empty list, eventmanager and name None
EventInit(st) == [st EXCEPT !.nevents = st.nevents + 1,
                            !.handlers[Ev(st.nevents + 1)] = <<>>,
                            !.name[Ev(st.nevents + 1)] = None,
                            !.eventmanager[Ev(st.nevents + 1)] = None]

\* list.append
append(st, e, h) == [st EXCEPT !.handlers[e] = Append(st.handlers[e], h)]

\* add_handler without the callable check
add_handler_unchecked(st, e, h) == [st |-> append(st, e, h), res |-> "ok"]

\* add_handler: [st, res]
add_handler(st, e, h) ==
    IF ~callable(st, h)
    THEN [st |-> st, res |-> "TypeError"]
    ELSE [st |-> append(st, e, h), res |-> "ok"]

\* index of the first element of s equal to h, 0 when there is none
index(s, h) ==
    IF \E i \in 1..Len(s) : s[i] = h
    THEN CHOOSE i \in 1..Len(s) : s[i] = h /\ \A j \in 1..(i - 1) : s[j] # h
    ELSE 0

\* remove that takes out the last element equal to h instead of the first
remove_last(s, h) ==
    LET i == CHOOSE j \in 0..Len(s) :
                 /\ j # 0 => s[j] = h
                 /\ \A x \in (j + 1)..Len(s) : s[x] # h
                 /\ j = 0 => \A x \in 1..Len(s) : s[x] # h
    IN SubSeq(s, 1, i - 1) \o SubSeq(s, i + 1, Len(s))
\* list.remove
remove(s, h) ==
    LET i == index(s, h)
    IN SubSeq(s, 1, i - 1) \o SubSeq(s, i + 1, Len(s))

\* remove_handler that lets a missing handler pass (discard for remove)
remove_handler_discard(st, e, h) ==
    [st |-> [st EXCEPT !.handlers[e] = remove(st.handlers[e], h)], res |-> "ok"]

\* remove_handler: [st, res]
remove_handler(st, e, h) ==
    IF index(st.handlers[e], h) = 0
    THEN [st |-> st, res |-> "ValueError"]
    ELSE [st |-> [st EXCEPT !.handlers[e] = remove(st.handlers[e], h)],
          res |-> "ok"]

\* clear: del self[:]
clear(st, e) == [st EXCEPT !.handlers[e] = <<>>]

\* ---------------------------------------------------------------- EventManager
\* __setitem__ (and __setattr__, which forwards to it)
setitem(st, m, k, v) ==
    LET stamped == IF IsEvent(st, v)
                   THEN [st EXCEPT !.name[v] = k, !.eventmanager[v] = m]
                   ELSE st
    IN [stamped EXCEPT !.dict[m] =
           [x \in DOMAIN st.dict[m] \cup {k} |->
               IF x = k THEN v ELSE st.dict[m][x]]]

\* a read that answers None for a missing name (dict.get for self[name])
getitem_get(st, m, k) ==
    IF k \in DOMAIN st.dict[m]
    THEN [st |-> st, res |-> "ok", ret |-> st.dict[m][k]]
    ELSE [st |-> st, res |-> "ok", ret |-> None]

\* __getattr__ (and dict's __getitem__): [st, res, ret]
getitem(st, m, k) ==
    IF k \in DOMAIN st.dict[m]
    THEN [st |-> st, res |-> "ok", ret |-> st.dict[m][k]]
    ELSE [st |-> st, res |-> "KeyError", ret |-> None]

\* __init__ without its last line: the global event keeps the stamps of
\* __setitem__
EventManagerInit_stamped(st, m) ==
    LET s0 == [st EXCEPT !.dict[m] = <<>>]
        s1 == EventInit(s0)
        s2 == setitem(s1, m, "got_event", Ev(s1.nevents))
        g == getitem(s2, m, "got_event").ret
    IN [s2 EXCEPT !.name[g] = "GLOBAL"]

\* __init__ that keeps the global event in an instance attribute
\* (object.__setattr__) instead of the mapping
EventManagerInit_attr(st, m) ==
    LET s0 == [st EXCEPT !.dict[m] = <<>>]
        s1 == EventInit(s0)
    IN [s1 EXCEPT !.name[Ev(s1.nevents)] = "GLOBAL"]

\* EventManager.__init__
EventManagerInit(st, m) ==
    LET s0 == [st EXCEPT !.dict[m] = <<>>]
        s1 == EventInit(s0)
        s2 == setitem(s1, m, "got_event", Ev(s1.nevents))
        g == getitem(s2, m, "got_event").ret
    IN [s2 EXCEPT !.name[g] = "GLOBAL", !.eventmanager[g] = None]

\* the Event that manager number i creates in its __init__
Global(m) == Ev(CHOOSE i \in 1..Len(Managers) : Managers[i] = m)

\* ---------------------------------------------------------------- fire
Entry(t, e, h, args, d) == [t |-> t, ev |-> e, h |-> h, args |-> args, d |-> d]

RECURSIVE fire(_, _, _, _)
RECURSIVE loop(_, _, _, _, _, _)
RECURSIVE call(_, _, _, _)

\* v(*args) at depth d: [st, out, log]
call(st, v, args, d) ==
    CASE IsEvent(st, v) -> fire(st, v, args, d)
      [] v = "stop" -> [st |-> st, out |-> "StopIteration", log |-> <<>>]
      [] v = "boom" -> [st |-> st, out |-> "Exception", log |-> <<>>]
      [] v \in PlainFns -> [st |-> st, out |-> "return", log |-> <<>>]
      [] v \in Mutators ->
             LET r == IF v = RmSelf(Target(v))
                      THEN remove_handler(st, Target(v), v)
                      ELSE add_handler(st, Target(v), "f")
             IN [st |-> r.st,
                 out |-> IF r.res = "ok" THEN "return" ELSE r.res,
                 log |-> <<>>]
      [] OTHER -> [st |-> st, out |-> "TypeError", log |-> <<>>]

RECURSIVE loop_skip(_, _, _, _, _, _)
\* loop, stepping over every other handler
loop_skip(st, e, args, i, d, log) ==
    IF i > Len(st.handlers[e])
    THEN [st |-> st, out |-> "return",
          log |-> Append(log, Entry("ret", e, "", args, d))]
    ELSE LET h == st.handlers[e][i]
             r == call(st, h, args, d + 1)
             log2 == Append(log, Entry("call", e, h, args, d)) \o r.log
         IN CASE r.out = "return" -> loop_skip(r.st, e, args, i + 2, d, log2)
              [] r.out = "StopIteration" ->
                     [st |-> r.st, out |-> "return",
                      log |-> Append(log2, Entry("ret", e, "", args, d))]
              [] OTHER -> [st |-> r.st, out |-> r.out, log |-> log2]

RECURSIVE loop_continue(_, _, _, _, _, _)
\* loop, with continue where the source has break
loop_continue(st, e, args, i, d, log) ==
    IF i > Len(st.handlers[e])
    THEN [st |-> st, out |-> "return",
          log |-> Append(log, Entry("ret", e, "", args, d))]
    ELSE LET h == st.handlers[e][i]
             r == call(st, h, args, d + 1)
             log2 == Append(log, Entry("call", e, h, args, d)) \o r.log
         IN CASE r.out \in {"return", "StopIteration"} ->
                     loop_continue(r.st, e, args, i + 1, d, log2)
              [] OTHER -> [st |-> r.st, out |-> r.out, log |-> log2]

RECURSIVE loop_swallow(_, _, _, _, _, _)
\* loop, with a bare except where the source names StopIteration
loop_swallow(st, e, args, i, d, log) ==
    IF i > Len(st.handlers[e])
    THEN [st |-> st, out |-> "return",
          log |-> Append(log, Entry("ret", e, "", args, d))]
    ELSE LET h == st.handlers[e][i]
             r == call(st, h, args, d + 1)
             log2 == Append(log, Entry("call", e, h, args, d)) \o r.log
         IN CASE r.out = "return" -> loop_swallow(r.st, e, args, i + 1, d, log2)
              [] OTHER -> [st |-> r.st, out |-> "return",
                           log |-> Append(log2, Entry("ret", e, "", args, d))]
RECURSIVE loop_raise(_, _, _, _, _, _)
\* loop without the try: StopIteration leaves fire like any exception
loop_raise(st, e, args, i, d, log) ==
    IF i > Len(st.handlers[e])
    THEN [st |-> st, out |-> "return",
          log |-> Append(log, Entry("ret", e, "", args, d))]
    ELSE LET h == st.handlers[e][i]
             r == call(st, h, args, d + 1)
             log2 == Append(log, Entry("call", e, h, args, d)) \o r.log
         IN CASE r.out = "return" -> loop_raise(r.st, e, args, i + 1, d, log2)
              [] OTHER -> [st |-> r.st, out |-> r.out, log |-> log2]
\* the for loop of fire, from list position i on
loop(st, e, args, i, d, log) ==
    IF i > Len(st.handlers[e])
    THEN [st |-> st, out |-> "return",
          log |-> Append(log, Entry("ret", e, "", args, d))]
    ELSE LET h == st.handlers[e][i]
             r == call(st, h, args, d + 1)
             log2 == Append(log, Entry("call", e, h, args, d)) \o r.log
         IN CASE r.out = "return" -> loop(r.st, e, args, i + 1, d, log2)
              [] r.out = "StopIteration" ->
                     [st |-> r.st, out |-> "return",
                      log |-> Append(log2, Entry("ret", e, "", args, d))]
              [] OTHER -> [st |-> r.st, out |-> r.out, log |-> log2]

\* fire that notifies the first manager when the Event has no owner
fire_default(st, e, args, d) ==
    IF d > MaxDepth
    THEN [st |-> st, out |-> "RecursionError", log |-> <<>>]
    ELSE
    LET m == IF st.eventmanager[e] = None THEN Managers[1] ELSE st.eventmanager[e]
        enter == <<Entry("fire", e, "", args, d)>>
    IN IF DOMAIN st.dict[m] # {}
       THEN LET g == getitem(st, m, "got_event")
                gargs == <<st.name[e]>> \o args
                r == call(st, g.ret, gargs, d + 1)
                log2 == Append(enter, Entry("notify", e, g.ret, gargs, d)) \o r.log
            IN CASE g.res # "ok" -> [st |-> st, out |-> g.res, log |-> enter]
                 [] r.out = "return" -> loop(r.st, e, args, 1, d, log2)
                 [] OTHER -> [st |-> r.st, out |-> r.out, log |-> log2]
       ELSE loop(st, e, args, 1, d, enter)
\* Event.fire (and __call__, which forwards to it)
fire(st, e, args, d) ==
    IF d > MaxDepth
    THEN [st |-> st, out |-> "RecursionError", log |-> <<>>]
    ELSE
    LET m == st.eventmanager[e]
        enter == <<Entry("fire", e, "", args, d)>>
    IN IF m # None /\ DOMAIN st.dict[m] # {}
       THEN LET g == getitem(st, m, "got_event")
                gargs == <<st.name[e]>> \o args
                r == call(st, g.ret, gargs, d + 1)
                log2 == Append(enter, Entry("notify", e, g.ret, gargs, d)) \o r.log
            IN CASE g.res # "ok" -> [st |-> st, out |-> g.res, log |-> enter]
                 [] r.out = "return" -> loop(r.st, e, args, 1, d, log2)
                 [] OTHER -> [st |-> r.st, out |-> r.out, log |-> log2]
       ELSE loop(st, e, args, 1, d, enter)

\* ---------------------------------------------------------------- apply
\* hasattr(m, n): "True", "False", or the exception that escapes it.
\* Python 2 turns every exception of the lookup into False, Python 3 only
\* AttributeError, so the KeyError of __getattr__ escapes.
hasattr(st, m, n, ver) ==
    CASE n \in ClassAttrs -> "True"
      [] getitem(st, m, n).res = "ok" -> "True"
      [] ver = 2 -> "False"
      [] OTHER -> "KeyError"

RECURSIVE apply_replace(_, _, _, _, _)
\* apply that sets a new Event for every member, existing or not
apply_replace(st, m, o, i, ver) ==
    IF i > Len(Dir(o))
    THEN [st |-> st, res |-> "ok"]
    ELSE
    LET method == Dir(o)[i]
        attr == GetAttr(o, method)
        s1 == setitem(EventInit(st), m, method, Ev(st.nevents + 1))
        got == getitem(s1, m, method)
        added == add_handler(s1, got.ret, attr)
    IN CASE ~callable(st, attr) -> apply_replace(st, m, o, i + 1, ver)
         [] startswith_(method) -> apply_replace(st, m, o, i + 1, ver)
         [] added.res # "ok" -> added
         [] OTHER -> apply_replace(added.st, m, o, i + 1, ver)

RECURSIVE apply(_, _, _, _, _)
\* EventManager.apply, from position i of dir(events) on: [st, res]
apply(st, m, o, i, ver) ==
    IF i > Len(Dir(o))
    THEN [st |-> st, res |-> "ok"]
    ELSE
    LET method == Dir(o)[i]
        attr == GetAttr(o, method)
        has == hasattr(st, m, method, ver)
        s1 == IF has = "False"
              THEN setitem(EventInit(st), m, method, Ev(st.nevents + 1))
              ELSE st
        got == getitem(s1, m, method)
        added == add_handler(s1, got.ret, attr)
    IN CASE ~callable(st, attr) -> apply(st, m, o, i + 1, ver)
         [] startswith_(method) -> apply(st, m, o, i + 1, ver)
         [] has = "KeyError" -> [st |-> st, res |-> "KeyError"]
         [] got.res # "ok" -> [st |-> s1, res |-> got.res]
         [] ~IsEvent(s1, got.ret) -> [st |-> s1, res |-> "AttributeError"]
         [] added.res # "ok" -> added
         [] OTHER -> apply(added.st, m, o, i + 1, ver)

\* ---------------------------------------------------------------- actions
Init ==
    /\ LET RECURSIVE build(_, _)
           build(st, i) == IF i > Len(Managers) THEN st
                           ELSE build(EventManagerInit(st, Managers[i]), i + 1)
           st0 == [nevents |-> 0,
                   handlers |-> [e \in EventIds |-> <<>>],
                   name |-> [e \in EventIds |-> None],
                   eventmanager |-> [e \in EventIds |-> None],
                   dict |-> [m \in ManagerIds |-> <<>>]]
           st == build(st0, 1)
       IN /\ nevents = st.nevents
          /\ handlers = st.handlers
          /\ name = st.name
          /\ eventmanager = st.eventmanager
          /\ dict = st.dict
    /\ py \in PyVersions
    /\ steps = 0
    /\ last = Call("init", "", "", "ok", <<>>)

\* e = Event()
NewEvent ==
    /\ Commit(EventInit(State))
    /\ last' = Call("Event", Ev(nevents + 1), "", "ok", <<>>)

\* e.add_handler(h)
AddHandlerOf(e, h) ==
    /\ IsEvent(State, e)
    /\ LET r == add_handler(State, e, h)
       IN /\ Commit(r.st)
          /\ last' = Call("add_handler", e, h, r.res, <<>>)

AddHandler ==
    \E e \in EventIds, h \in {"f", "g", "stop", "boom", "nc"} : AddHandlerOf(e, h)

\* e.remove_handler(h)
RemoveHandlerOf(e, h) ==
    /\ IsEvent(State, e)
    /\ LET r == remove_handler(State, e, h)
       IN /\ Commit(r.st)
          /\ last' = Call("remove_handler", e, h, r.res, <<>>)

RemoveHandler ==
    \E e \in EventIds, h \in {"f", "g"} : RemoveHandlerOf(e, h)

\* e.clear()
Clear ==
    \E e \in EventIds :
        /\ IsEvent(State, e)
        /\ Commit(clear(State, e))
        /\ last' = Call("clear", e, "", "ok", <<>>)

\* e.fire(*args), e(*args)
Fire ==
    \E e \in EventIds, args \in Args :
        /\ IsEvent(State, e)
        /\ LET r == fire(State, e, args, 1)
           IN /\ Commit(r.st)
              /\ last' = Call("fire", e, args,
                              IF r.out = "return" THEN "ok" ELSE r.out, r.log)

\* m[k] = v, m.k = v
SetItemOf(m, k, v) ==
    /\ v \in EventIds => IsEvent(State, v)
    /\ Commit(setitem(State, m, k, v))
    /\ last' = Call("setitem", m, <<k, v>>, "ok", <<>>)

SetItem ==
    \E m \in DOMAIN dict, k \in Keys, v \in EventIds \cup {"nc"} :
        SetItemOf(m, k, v)

\* m[k], m.k
GetItemOf(m, k) ==
    LET r == getitem(State, m, k)
    IN /\ Commit(r.st)
       /\ last' = Call("getitem", m, k, r.res, <<>>)

GetItem == \E m \in DOMAIN dict, k \in Keys : GetItemOf(m, k)

\* m.apply(o)
ApplyOf(m, o) ==
    LET r == apply(State, m, o, 1, py)
    IN /\ Commit(r.st)
       /\ last' = Call("apply", m, o, r.res, <<>>)

Apply == \E m \in DOMAIN dict, o \in Objs : ApplyOf(m, o)

Next ==
    \/ NewEvent
    \/ AddHandler
    \/ RemoveHandler
    \/ Clear
    \/ Fire
    \/ SetItem
    \/ GetItem
    \/ Apply

Spec == Init /\ [][Next]_vars

\* ---------------------------------------------------------------- wider inputs
\* a second key for member Events
KeysWide == Keys \cup {"b"}

\* e.add_handler(h) with h a function, one that raises StopIteration, an
\* Event, or a handler that changes e's list while e is fired
AddHandlerWide ==
    \E e \in EventIds :
        \E h \in {"f", "stop"} \cup EventIds \cup {RmSelf(e), AddF(e)} :
            /\ h \in EventIds => IsEvent(State, h)
            /\ AddHandlerOf(e, h)

\* m[k] = v with v an Event or a function that raises StopIteration
SetItemWide ==
    \E m \in DOMAIN dict, k \in KeysWide, v \in EventIds \cup {"stop"} :
        SetItemOf(m, k, v)

NextWide ==
    \/ NewEvent
    \/ AddHandlerWide
    \/ Fire
    \/ SetItemWide

SpecWide == Init /\ [][NextWide]_vars

\* ---------------------------------------------------------------- sanity
TypeOK ==
    /\ py \in PyVersions
    /\ steps \in 0..MaxSteps
    /\ nevents \in Len(Managers)..(Len(Managers) + steps)
    /\ \A e \in EventIds : ~IsEvent(State, e) => handlers[e] = <<>>
    /\ \A m \in DOMAIN dict : DOMAIN dict[m] \subseteq KeysWide

\* ---------------------------------------------------------------- the calls of a fire
\* the handlers the fired Event itself invoked, in order
TopCalls == SelectSeq(last.log, LAMBDA x : x.t = "call" /\ x.d = 1)

\* what invoking every handler of e once, in list order, with args looks like
AllCalls(e, args, d) ==
    [i \in 1..Len(handlers[e]) |-> Entry("call", e, handlers[e][i], args, d)]

\* the handlers of e are callables that return and leave the list alone
AllPlain(e) == \A i \in 1..Len(handlers[e]) : handlers[e][i] \in PlainFns

\* the fired Event got as far as its own for loop
LoopEntered == \E i \in 1..Len(last.log) :
                   last.log[i].d = 1 /\ last.log[i].t \in {"call", "ret"}

IsPrefix(s, t) == Len(s) <= Len(t) /\ \A i \in 1..Len(s) : s[i] = t[i]

\* the global event of m is where __init__ put it, the entry under
\* "got_event", and was never assigned under a key since (an assignment
\* replaces the name GLOBAL by the key)
Fresh(m) == /\ dict[m]["got_event"] = Global(m)
            /\ name[Global(m)] = "GLOBAL"

\* ---------------------------------------------------------------- C1
\* C1 as stated, for the Events that are unbound or bound to a manager whose
\* global event is as constructed: whenever an Event whose handlers neither
\* raise nor mutate the list is fired, its handlers h1..hn are invoked in
\* list order, each position once, each with the arguments of fire.
C1_AsStated ==
    (/\ last.op = "fire"
     /\ AllPlain(last.obj)
     /\ eventmanager[last.obj] # None => Fresh(eventmanager[last.obj]))
        => TopCalls = AllCalls(last.obj, last.arg, 1)

\* C1 amended: the same, provided the global notification that precedes the
\* loop (when the Event is bound to a manager) did not raise.
C1_OrderedDispatch ==
    (last.op = "fire" /\ AllPlain(last.obj) /\ LoopEntered)
        => TopCalls = AllCalls(last.obj, last.arg, 1)

C1_Witness ==
    /\ last.op = "fire"
    /\ AllPlain(last.obj)
    /\ LoopEntered
    /\ Len(handlers[last.obj]) >= 2
    /\ handlers[last.obj][1] # handlers[last.obj][2]

\* ---------------------------------------------------------------- C2
\* the global handlers that ran for the notification of the fired Event
GlobalCalls(g) == SelectSeq(last.log, LAMBDA x : x.t = "call" /\ x.d = 2 /\ x.ev = g)

\* C2 as stated: an Event e stored in manager m under name k (other than
\* the global event) first dispatches m's global event with (k, args): the
\* global handlers run with k prepended, and e's own handlers run only after
\* that dispatch has returned.
C2_AsStated ==
    last.op = "fire" =>
        \A m \in DOMAIN dict : \A k \in DOMAIN dict[m] :
            LET e == last.obj
                g == dict[m]["got_event"]
                gargs == <<k>> \o last.arg
            IN (dict[m][k] = e /\ e # g /\ IsEvent(State, g)) =>
                  /\ Len(last.log) >= 2
                  /\ last.log[2] = Entry("notify", e, g, gargs, 1)
                  /\ IsPrefix(GlobalCalls(g), AllCalls(g, gargs, 2))
                  /\ AllPlain(g) => GlobalCalls(g) = AllCalls(g, gargs, 2)
                  /\ \A i \in 1..Len(last.log) :
                        (last.log[i].t = "call" /\ last.log[i].d = 1) =>
                            \E j \in 1..(i - 1) :
                                last.log[j] = Entry("ret", g, "", gargs, 2)

\* ---------------------------------------------------------------- C3
\* C3: when the handler at position i of the fired Event raises
\* StopIteration, the handlers invoked by that fire are exactly those at
\* positions 1..i, once each and in order, and none after i.
C3_StopSkipsRest ==
    last.op = "fire" =>
        \A i \in 1..Len(TopCalls) :
            TopCalls[i].h = "stop" =>
                /\ Len(TopCalls) = i
                /\ IsPrefix(TopCalls, AllCalls(last.obj, last.arg, 1))

C3_Witness ==
    /\ last.op = "fire"
    /\ Len(TopCalls) = 1
    /\ TopCalls[1].h = "stop"
    /\ Len(handlers[last.obj]) = 2

\* ---------------------------------------------------------------- C4
\* the times the global event of m was dispatched in the last fire
GlobalFires(m) == SelectSeq(last.log, LAMBDA x : x.t = "fire" /\ x.ev = Global(m))

\* C4: on a manager whose global event is as constructed, a fire of the global
\* event, or of an Event bound to the manager, dispatches the global event
\* exactly once, the global event's own fire notifies nobody, and the call
\* does not run out of stack, whatever the number of global handlers.
C4_NoGlobalRecursion ==
    last.op = "fire" =>
        \A m \in DOMAIN dict :
            (Fresh(m) /\ (last.obj = Global(m) \/ eventmanager[last.obj] = m)) =>
                /\ Len(GlobalFires(m)) = 1
                /\ GlobalFires(m)[1].d = IF last.obj = Global(m) THEN 1 ELSE 2
                /\ \A i \in 1..Len(last.log) :
                       ~(last.log[i].t = "notify" /\ last.log[i].ev = Global(m))
                /\ last.res # "RecursionError"

C4_Witness ==
    /\ last.op = "fire"
    /\ last.obj # Global("m1")
    /\ eventmanager[last.obj] = "m1"
    /\ Fresh("m1")
    /\ Len(handlers[Global("m1")]) = 2
    /\ Len(GlobalCalls(Global("m1"))) = 2

\* ---------------------------------------------------------------- C5
\* C5 as stated: no key of the mapping maps to the global Event object.
C5_AsStated ==
    \A m \in DOMAIN dict : \A k \in DOMAIN dict[m] : dict[m][k] # Global(m)

\* C5 amended: the global event is a regular entry of the mapping, under the
\* key "got_event".  Right after construction it is the only entry, named
\* GLOBAL and with no owner, and the key is present in every state reached by
\* assignments, reads, apply and the Event operations.
C5_GlobalIsEntry ==
    \A m \in DOMAIN dict :
        /\ "got_event" \in DOMAIN dict[m]
        /\ last.op = "init" =>
              /\ DOMAIN dict[m] = {"got_event"}
              /\ dict[m]["got_event"] = Global(m)
              /\ name[Global(m)] = "GLOBAL"
              /\ eventmanager[Global(m)] = None
        /\ Fresh(m) => \E k \in DOMAIN dict[m] : dict[m][k] = Global(m)

C5_Witness ==
    /\ last.op = "getitem"
    /\ last.res = "ok"
    /\ Fresh("m1")
    /\ DOMAIN dict["m1"] = Keys

\* ---------------------------------------------------------------- C6
IsEventNext(v) == \E i \in 1..nevents' : v = Ev(i)

\* the step is the call op(arg) on obj
Called(op) == last'.op = op

PublicNames(o) ==
    {Dir(o)[i] : i \in {j \in 1..Len(Dir(o)) :
                           /\ callable(State, GetAttr(o, Dir(o)[j]))
                           /\ ~startswith_(Dir(o)[j])}}

MemberNames(o) == {Dir(o)[i] : i \in 1..Len(Dir(o))}

\* C7 as stated: apply(o) on a manager with no entries for o's member names
\* returns normally and leaves, for exactly each public callable member n,
\* an Event under n, stamped with n and the manager and holding o.n.
C7_AsStated ==
    [][LET m == last'.obj
           o == last'.arg
       IN (Called("apply") /\ MemberNames(o) \cap DOMAIN dict[m] = {}) =>
              /\ last'.res = "ok"
              /\ DOMAIN dict'[m] = DOMAIN dict[m] \cup PublicNames(o)
              /\ \A n \in PublicNames(o) :
                    /\ IsEventNext(dict'[m][n])
                    /\ name'[dict'[m][n]] = n
                    /\ eventmanager'[dict'[m][n]] = m
                    /\ handlers'[dict'[m][n]] = <<GetAttr(o, n)>>]_vars

\* ---------------------------------------------------------------- C8
Count(s, h) == Cardinality({i \in 1..Len(s) : s[i] = h})

\* every public callable member of o already has an Event in m
AllExist(m, o) ==
    \A n \in PublicNames(o) : n \in DOMAIN dict[m] /\ IsEvent(State, dict[m][n])

\* C8: when the Events of the members' names already exist, apply returns
\* normally, replaces no entry and creates no Event; each such Event keeps
\* its handlers, in order, and gets the member appended, so that every apply
\* adds one more occurrence of o.n to event n.
C8_ApplyAccumulates ==
    [][LET m == last'.obj
           o == last'.arg
       IN (Called("apply") /\ AllExist(m, o)) =>
              /\ last'.res = "ok"
              /\ dict' = dict
              /\ nevents' = nevents
              /\ \A n \in PublicNames(o) :
                    LET e == dict[m][n]
                        h == GetAttr(o, n)
                    IN /\ IsPrefix(handlers[e], handlers'[e])
                       /\ handlers'[e][Len(handlers'[e])] = h
                       /\ Count(handlers'[e], h) = Count(handlers[e], h) + 1
                       /\ Len(handlers'[e]) = Len(handlers[e]) +
                              Cardinality({x \in PublicNames(o) : dict[m][x] = e})]_vars

\* apply(o1) has run twice on an Event that held a handler before
C8_Witness ==
    /\ last.op = "apply"
    /\ last.res = "ok"
    /\ "a" \in DOMAIN dict[last.obj]
    /\ IsEvent(State, dict[last.obj]["a"])
    /\ Len(handlers[dict[last.obj]["a"]]) = 3
    /\ handlers[dict[last.obj]["a"]][1] # "o1.a"
    /\ Count(handlers[dict[last.obj]["a"]], "o1.a") = 2

\* ---------------------------------------------------------------- C9
\* C9: add_handler(x) with x not callable fails with TypeError and leaves
\* every handler list as it was; with a callable x it appends x to the end
\* of the Event's list, one longer than before, present already or not.
C9_AddHandler ==
    [][LET e == last'.obj
           x == last'.arg
       IN Called("add_handler") =>
              IF ~callable(State, x)
              THEN /\ last'.res = "TypeError"
                   /\ handlers' = handlers
              ELSE /\ last'.res = "ok"
                   /\ handlers' = [handlers EXCEPT ![e] = Append(handlers[e], x)]
                   /\ Len(handlers'[e]) = Len(handlers[e]) + 1
                   /\ Count(handlers'[e], x) = Count(handlers[e], x) + 1]_vars

\* a handler was added twice to an Event, and then something not callable
\* was refused by it
C9_Witness ==
    /\ last.op = "add_handler"
    /\ last.res = "TypeError"
    /\ ~callable(State, last.arg)
    /\ Len(handlers[last.obj]) = 2
    /\ handlers[last.obj][1] = handlers[last.obj][2]

\* ---------------------------------------------------------------- C10
\* C10: remove_handler(x) with x not in the Event's list fails with
\* ValueError and leaves the list, contents and order, as it was.
C10_RemoveMissing ==
    [][LET e == last'.obj
           x == last'.arg
       IN (Called("remove_handler") /\ \A i \in 1..Len(handlers[e]) : handlers[e][i] # x) =>
              /\ last'.res = "ValueError"
              /\ handlers' = handlers]_vars

C10_Witness ==
    /\ last.op = "remove_handler"
    /\ last.res = "ValueError"
    /\ Len(handlers[last.obj]) >= 2

\* ---------------------------------------------------------------- C11
\* the calls of the last fire, at every depth, of callables that raise an
\* exception other than StopIteration
Raisers == {i \in 1..Len(last.log) : last.log[i].t = "call" /\ last.log[i].h = "boom"}

\* C11: when a handler raises an exception other than StopIteration during a
\* fire, be it a handler of the fired Event or a global handler during the
\* notification, the fire ends with that exception and the raising call is
\* the last thing the fire did: no handler runs after it, and after a global
\* handler's failure none of the fired Event's own handlers runs.  A fire
\* ends with that exception only in this way.
C11_ExceptionPropagates ==
    last.op = "fire" =>
        /\ \A i \in Raisers :
              /\ i = Len(last.log)
              /\ last.res = "Exception"
              /\ last.log[i].d = 2 => TopCalls = <<>>
        /\ last.res = "Exception" => Len(last.log) \in Raisers

\* a global handler raised while the fired Event had handlers of its own
C11_Witness ==
    /\ last.op = "fire"
    /\ last.res = "Exception"
    /\ last.log[Len(last.log)].d = 2
    /\ last.log[Len(last.log)].h = "boom"
    /\ Len(handlers[last.obj]) >= 1
    /\ Len(handlers[last.log[Len(last.log)].ev]) >= 2
    /\ handlers[last.log[Len(last.log)].ev][1] = "boom"

\* ---------------------------------------------------------------- C12
\* C12: the fire of an Event whose owner is unset notifies no manager and
\* dispatches no Event but itself: the calls it makes are calls of its own
\* handlers, in list order.
C12_UnboundFiresOwn ==
    (last.op = "fire" /\ eventmanager[last.obj] = None) =>
        /\ \A i \in 1..Len(last.log) :
              /\ last.log[i].t # "notify"
              /\ last.log[i].ev = last.obj
              /\ last.log[i].d = 1
        /\ IsPrefix(TopCalls, AllCalls(last.obj, last.arg, 1))
        /\ last.res # "RecursionError"

\* an Event never stored in the manager ran its handlers while the manager's
\* global event had a handler that stayed silent
C12_Witness ==
    /\ last.op = "fire"
    /\ last.obj # Global("m1")
    /\ eventmanager[last.obj] = None
    /\ \A k \in DOMAIN dict["m1"] : dict["m1"][k] # last.obj
    /\ Len(TopCalls) >= 1
    /\ Len(handlers[Global("m1")]) >= 1
    /\ Fresh("m1")

\* ---------------------------------------------------------------- C13
\* the part of C13 about the assignment itself: after m[k] = v, m maps k to
\* v and every other key as before; an Event v is named k and owned by m; a
\* value that is not an Event leaves every Event as it was
SetItemStamps ==
    [][Called("setitem") =>
          LET m == last'.obj
              k == last'.arg[1]
              v == last'.arg[2]
          IN /\ k \in DOMAIN dict'[m] /\ dict'[m][k] = v
             /\ \A x \in DOMAIN dict[m] \ {k} : dict'[m][x] = dict[m][x]
             /\ DOMAIN dict'[m] = DOMAIN dict[m] \cup {k}
             /\ IsEvent(State, v) =>
                   /\ name' = [name EXCEPT ![v] = k]
                   /\ eventmanager' = [eventmanager EXCEPT ![v] = m]
             /\ ~IsEvent(State, v) => UNCHANGED <<name, eventmanager>>
             /\ UNCHANGED <<handlers, nevents>>]_vars

\* C13 as stated: an assignment m[k] = v stamps an Event v with k and m and
\* stores it, stores any other value as it is without stamping, and a value
\* that is not an Event takes no part in dispatch or global notification:
\* no fire calls it.
C13_AsStated ==
    [][/\ Called("setitem") =>
              LET m == last'.obj
                  k == last'.arg[1]
                  v == last'.arg[2]
              IN /\ k \in DOMAIN dict'[m] /\ dict'[m][k] = v
                 /\ IsEvent(State, v) => name'[v] = k /\ eventmanager'[v] = m
                 /\ ~IsEvent(State, v) => UNCHANGED <<name, eventmanager>>
       /\ Called("fire") =>
              \A i \in 1..Len(last'.log) :
                  last'.log[i].t = "notify" => IsEvent(State, last'.log[i].h)]_vars

\* ---------------------------------------------------------------- C14
\* C14 as stated, for the Events other than the one under "got_event":
\* clear() leaves the handler list empty, and the fire that follows invokes
\* none of the former handlers; when the Event is bound to a manager whose
\* "got_event" entry is an Event, that fire carries out one notification,
\* with the Event's name and the arguments of fire, and dispatches that
\* global event exactly once.
C14_AsStated ==
    [][/\ Called("clear") => handlers'[last'.obj] = <<>>
       /\ (last.op = "clear" /\ Called("fire") /\ last'.obj = last.obj) =>
              LET e == last'.obj
                  log == last'.log
                  m == eventmanager[e]
              IN /\ \A i \in 1..Len(log) : ~(log[i].t = "call" /\ log[i].ev = e)
                 /\ (m # None /\ IsEvent(State, dict[m]["got_event"])
                              /\ dict[m]["got_event"] # e) =>
                        LET g == dict[m]["got_event"]
                            gargs == <<name[e]>> \o last'.arg
                        IN /\ Cardinality({i \in 1..Len(log) :
                                  log[i].t = "fire" /\ log[i].ev = g}) = 1
                           /\ Cardinality({i \in 1..Len(log) :
                                  log[i].t = "notify" /\ log[i].ev = e}) = 1
                           /\ \E i \in 1..Len(log) :
                                  log[i] = Entry("notify", e, g, gargs, 1)]_vars

\* ---------------------------------------------------------------- C15
\* the list s without its element at position i
Without(s, i) == [j \in 1..(Len(s) - 1) |-> IF j < i THEN s[j] ELSE s[j + 1]]

\* C15: remove_handler(x) on an Event in whose list x occurs returns
\* normally and takes out the occurrence of lowest index and nothing else:
\* the list is one shorter, has one occurrence of x less, every other
\* handler and every later occurrence of x keep their relative order, and
\* no other Event changes.
C15_RemoveFirst ==
    [][LET e == last'.obj
           x == last'.arg
           old == handlers[e]
           occ == {i \in 1..Len(old) : old[i] = x}
       IN (Called("remove_handler") /\ occ # {}) =>
              LET first == CHOOSE i \in occ : \A j \in occ : i <= j
              IN /\ last'.res = "ok"
                 /\ handlers' = [handlers EXCEPT ![e] = Without(old, first)]
                 /\ Len(handlers'[e]) = Len(old) - 1
                 /\ Count(handlers'[e], x) = Count(old, x) - 1]_vars

\* f was removed from a list that held it twice, around or after g
C15_Witness ==
    /\ last.op = "remove_handler"
    /\ last.res = "ok"
    /\ last.arg = "f"
    /\ handlers[last.obj] = <<"g", "f">>

\* ---------------------------------------------------------------- C16
\* StopIteration raised by the handler at log position i ended the for loop
\* of the fire that called it and nothing else: that fire returned normally
\* right after the call
StopSwallowed(i) ==
    /\ i < Len(last.log)
    /\ last.log[i + 1] =
           Entry("ret", last.log[i].ev, "", last.log[i].args, last.log[i].d)

\* the fire that returned at log position i was a nested one and its caller
\* went on: the caller's next handler, or the caller's own normal return
CallerGoesOn(i) ==
    /\ i < Len(last.log)
    /\ last.log[i + 1].d = last.log[i].d - 1
    /\ last.log[i + 1].t \in {"call", "ret"}

\* C16 as stated: no fire lets StopIteration out to its caller; a handler's
\* StopIteration skips the rest of the handlers of the Event that called it,
\* whose fire returns normally, and when that Event was fired from within
\* another fire the outer dispatch continues.
C16_AsStated ==
    last.op = "fire" =>
        /\ last.res # "StopIteration"
        /\ \A i \in 1..Len(last.log) :
              /\ (last.log[i].t = "call" /\ last.log[i].h = "stop") => StopSwallowed(i)
              /\ (last.log[i].t = "ret" /\ last.log[i].d > 1) => CallerGoesOn(i)

\* ---------------------------------------------------------------- C17
\* C17 as stated: whatever Events have been assigned under whatever keys,
\* the Event under "got_event" has no owner, and no fire of an Event bound
\* to a manager runs out of stack.
C17_AsStated ==
    /\ \A m \in DOMAIN dict :
           IsEvent(State, dict[m]["got_event"]) =>
               eventmanager[dict[m]["got_event"]] = None
    /\ (last.op = "fire" /\ eventmanager[last.obj] # None) =>
           last.res # "RecursionError"

\* ---------------------------------------------------------------- C18
\* C18 as stated, on managers whose global event is as constructed: every
\* Event stored under a key k of manager m, other than the global event, is
\* named k and owned by m, and its fire notifies m's global event with k
\* ahead of the arguments.
C18_AsStated ==
    \A m \in DOMAIN dict :
        Fresh(m) =>
            \A k \in DOMAIN dict[m] :
                LET e == dict[m][k]
                IN (IsEvent(State, e) /\ e # Global(m)) =>
                       /\ name[e] = k
                       /\ eventmanager[e] = m
                       /\ (last.op = "fire" /\ last.obj = e) =>
                              /\ Len(last.log) >= 2
                              /\ last.log[2] =
                                     Entry("notify", e, Global(m), <<k>> \o last.arg, 1)

\* ---------------------------------------------------------------- C19
\* the times the fire recorded in c called h from the fired Event's own loop
CallsOf(c, h) ==
    Cardinality({i \in 1..Len(c.log) :
                    c.log[i].t = "call" /\ c.log[i].d = 1 /\ c.log[i].h = h})

\* C19 as stated, for an Event with no owner whose handlers are functions
\* that return, some of which remove themselves from the Event or add a
\* handler to it: in a fire that returns normally, every handler that was in
\* the list when the fire started and was not removed during it is called
\* once for each of its places in that list, and no handler is called more
\* often than it is in the list, at the start or at the end.
C19_AsStated ==
    [][LET e == last'.obj
           old == handlers[e]
           new == handlers'[e]
       IN (/\ Called("fire")
           /\ last'.res = "ok"
           /\ eventmanager[e] = None
           /\ \A i \in 1..Len(old) : old[i] \in PlainFns \cup Mutators) =>
              \A i \in 1..Len(old) :
                  LET h == old[i]
                  IN /\ Count(new, h) >= Count(old, h) =>
                            CallsOf(last', h) >= Count(old, h)
                     /\ CallsOf(last', h) <= Count(old, h) \/
                        CallsOf(last', h) <= Count(new, h)]_vars

\* ---------------------------------------------------------------- C20
\* the part of the last fire's log that precedes the fired Event's own loop
BeforeLoop ==
    LET own == {i \in 1..Len(last.log) :
                   last.log[i].d = 1 /\ last.log[i].t \in {"call", "ret"}}
    IN IF own = {} THEN last.log
       ELSE SubSeq(last.log, 1, (CHOOSE i \in own : \A j \in own : i <= j) - 1)

\* the global handlers called during the notification of the last fire
NotifyCalls == SelectSeq(BeforeLoop, LAMBDA x : x.t = "call" /\ x.d = 2)

\* a global handler raised StopIteration during the notification of the
\* last fire
GlobalStopped == \E i \in 1..Len(NotifyCalls) : NotifyCalls[i].h = "stop"

\* C20: when a handler of the global event raises StopIteration during the
\* notification of a member Event's fire, the global handlers called are
\* those up to and including that handler, in list order; the global event's
\* dispatch returns normally; and the member Event's own loop then runs as
\* it would without the notification: its handlers are called in list order,
\* all of them when none of them raises, and the fire does not end with
\* StopIteration.
C20_GlobalStopLocal ==
    (last.op = "fire" /\ GlobalStopped) =>
        LET e == last.obj
            g == NotifyCalls[1].ev
            gargs == <<name[e]>> \o last.arg
        IN /\ eventmanager[e] # None
           /\ g = dict[eventmanager[e]]["got_event"]
           /\ IsPrefix(NotifyCalls, AllCalls(g, gargs, 2))
           /\ NotifyCalls[Len(NotifyCalls)].h = "stop"
           /\ \A i \in 1..(Len(NotifyCalls) - 1) : NotifyCalls[i].h # "stop"
           /\ \E i \in 1..Len(last.log) : last.log[i] = Entry("ret", g, "", gargs, 2)
           /\ LoopEntered
           /\ IsPrefix(TopCalls, AllCalls(e, last.arg, 1))
           /\ Len(handlers[e]) >= 1 => Len(TopCalls) >= 1
           /\ AllPlain(e) => TopCalls = AllCalls(e, last.arg, 1)
           /\ last.res # "StopIteration"

\* the first of two global handlers raised StopIteration, the second was
\* skipped, and the member Event's handler ran
C20_Witness ==
    /\ last.op = "fire"
    /\ GlobalStopped
    /\ Len(NotifyCalls) = 1
    /\ Len(handlers[NotifyCalls[1].ev]) = 2
    /\ last.obj # NotifyCalls[1].ev
    /\ Len(TopCalls) >= 1
    /\ last.res = "ok"
====
